---- MODULE Spec2Model ----
(***************************************************************************)
(* Model of the retrieval-and-memory engine of RAG_filtering: the          *)
(* RAGChatBot session of src/main.py (bounded chat memory, rephraser,      *)
(* classifier, hybrid retrieval with reciprocal rank fusion, and the       *)
(* per-turn pipeline retrieval_augmented_generation).                      *)
(*                                                                         *)
(* A Python str is modelled as a sequence of tokens: a token is one        *)
(* whitespace character, one punctuation character, or a maximal run of    *)
(* other characters (a word such as "HR_Manual").  str.strip() removes the *)
(* leading and trailing whitespace tokens.                                 *)
(***************************************************************************)
EXTENDS Integers, Sequences, FiniteSets, TLC

VARIABLES
    chat_history,      \* self.chat_history: list of (user_text, ai_text)
    summary,           \* self.summary
    bm25_retriever,    \* self.bm25_retriever: None or the keyword index
    pc,                \* position inside retrieval_augmented_generation
    user_query,        \* argument of the running call
    standalone_query,  \* local of the running call
    category,          \* local of the running call
    results,           \* local of the running call
    final_answer,      \* local of the running call
    ret,               \* what the last finished call returned or raised
    llm_out,           \* response content of the generation call made by the
                       \* step just taken (None when it made no call)
    rephrase_calls,    \* generation calls made by rephrase_query in this call
    calls_before,      \* how the earlier calls of the running call ended:
                       \* "none" made, "unstored" all, some "stored"
    n_appends,         \* turns appended to chat_history since construction
    n_compactions,     \* summarization calls made since construction
    appended,          \* every turn appended since construction, in order
    made,              \* the steps of the running (else the last) call and
                       \* how each ended: "ok", "empty" or "failed"
    calls,             \* the steps of the running (else the last) call that
                       \* ended without an exception, with what each was
                       \* given and what it gave back
    error,             \* the exception that left the last call, else None
    turn_start,        \* <<chat_history, summary>> when the call began
    compactions,       \* the turns popped by manage_history, by their place
                       \* in appended, and whether the summary took them in
    vector_docs,       \* hybrid_search: result of the semantic index
    bm25_docs_raw,     \* hybrid_search: raw result of the keyword index
    search_category,   \* hybrid_search: argument category
    search_k,          \* hybrid_search: argument k
    search_filtered,   \* hybrid_search: bm25_docs_filtered when it returns
    search_scores,     \* hybrid_search: rrf_scores when it returns
    search_out,        \* hybrid_search: returned list
    heap,              \* the list objects, by reference
    bots,              \* the RAGChatBot objects of the user sessions:
                       \* chat_history (a reference), summary, memory_type,
                       \* bm25_retriever
    pending,           \* per session: the turn answered and not yet stored
    own_turns,         \* per session: the turns its own calls appended
    acting,            \* the session that took the last step
    last_call,         \* per session: the locals of its last call
    store,             \* the collection at DB_DIR: exists, chunks
    archive,           \* the collection of the last renamed directory
    ingest_pc,         \* position inside the Process Documents handler
    n_rebuilds,        \* rebuilds started
    reader_pc,         \* per session: position of its search
    observed           \* per session: what similarity_search last read

vars == <<chat_history, summary, bm25_retriever, pc, user_query,
          standalone_query, category, results, final_answer, ret, llm_out,
          rephrase_calls, calls_before, n_appends, n_compactions, appended,
          made, calls, error, turn_start, compactions,
          vector_docs, bm25_docs_raw, search_category, search_k,
          search_filtered, search_scores, search_out,
          heap, bots, pending, own_turns, acting, last_call,
          store, archive, ingest_pc, n_rebuilds, reader_pc, observed>>

sessionVars == <<chat_history, summary, bm25_retriever, user_query,
                 standalone_query, category, results, final_answer, ret,
                 llm_out, rephrase_calls, calls_before, n_appends,
                 n_compactions, appended, made, calls, error, turn_start,
                 compactions, pc>>

searchVars == <<vector_docs, bm25_docs_raw, search_category, search_k,
                search_filtered, search_scores, search_out>>

isoVars == <<heap, bots, pending, own_turns, acting, last_call>>

storeVars == <<store, archive, ingest_pc, n_rebuilds, reader_pc, observed>>

----------------------------------------------------------------------------
(* Bounds and program constants *)

MaxTurns == 7            \* appends explored on one session
MaxVec == 3              \* length of the semantic index's result
MaxLex == 3              \* length of the keyword index's raw result
MaxSessionTurns == 7     \* appends explored on each of two sessions
MaxRebuilds == 2         \* Process Documents runs explored
ChunksPerBuild == 2      \* batches that one ingestion writes
MaxDocs == 5             \* documents in the two ranked lists together

max_history_len == 5     \* main.py:43
k_constant == 60         \* main.py:260
DefaultK == 5            \* main.py:311 (k=5) and main.py:225 (default)

None == "None"
Raised == "raised"
NoText == <<None>>       \* an unset text-valued local
NoReturn == [kind |-> None, answer |-> NoText, category |-> NoText]

----------------------------------------------------------------------------
(* Text *)

Whitespace == {" ", "\n"}
Punctuation == {"."}

RECURSIVE LStrip(_)
LStrip(s) ==
    IF s = <<>> THEN s
    ELSE IF Head(s) \in Whitespace THEN LStrip(Tail(s)) ELSE s

RECURSIVE RStrip(_)
RStrip(s) ==
    IF s = <<>> THEN s
    ELSE IF s[Len(s)] \in Whitespace THEN RStrip(SubSeq(s, 1, Len(s) - 1))
    ELSE s

\* str.strip() with no argument: whitespace only
Strip(s) == RStrip(LStrip(s))

----------------------------------------------------------------------------
(* Categories, documents *)

VALID_CATEGORIES ==
    << <<"SOPs">>, <<"HR_Manual">>, <<"Technical_Specifications">>,
       <<"Finance_Policy">>, <<"Legal_Contracts">> >>

InList(x, list) == \E i \in DOMAIN list : list[i] = x

NoDocsAnswer == <<"No relevant documents found in this category.">>

\* a langchain Document: page_content and the metadata the code reads
Doc(content, cat, src) ==
    [page_content |-> content, category |-> cat, source |-> src]

Min(a, b) == IF a < b THEN a ELSE b

----------------------------------------------------------------------------
(* Chat memory: the window test and eviction of manage_history, and the    *)
(* turn that retrieval_augmented_generation stores.                        *)

\* variants of the window test: one turn too lax, one turn too eager
HistoryExceeds_lax(hist) == Len(hist) > max_history_len + 1

HistoryExceeds_eager(hist) == Len(hist) >= max_history_len

\* if len(self.chat_history) > self.max_history_len
HistoryExceeds(hist) == Len(hist) > max_history_len

\* variant: pop() without an index removes the newest turn
PopNewest(hist) == SubSeq(hist, 1, Len(hist) - 1)

\* variant: two turns are removed
PopOldest_two(hist) == Tail(Tail(hist))

\* self.chat_history.pop(0): what is left of the list
PopOldest(hist) == Tail(hist)

\* main.py:361 with 92-94  the append and, if the list then exceeds
\* max_history_len, the pop, between which the call does nothing else
MemoryUpdateRunning == pc = "manage"

\* the tuple appended to chat_history
TurnToStore(uq, sq, answer) == <<uq, answer>>

----------------------------------------------------------------------------
(* rephrase_query: the value returned when the generation call, if one is  *)
(* made, answers `out`.                                                    *)

\* variant: the generator is called only once a summary exists
RephraseCallsGenerator_summary_only(hist, summ) == summ # <<>>

RephraseCallsGenerator(hist, summ) == ~(hist = <<>> /\ summ = <<>>)

\* variant: the response content is returned without .strip()
rephrase_query_unstripped(q, hist, summ, out) ==
    IF ~RephraseCallsGenerator(hist, summ) THEN q ELSE out

rephrase_query(q, hist, summ, out) ==
    IF ~RephraseCallsGenerator(hist, summ) THEN q ELSE Strip(out)

----------------------------------------------------------------------------
(* classify_query: the value returned when the generation call answers     *)
(* `out`.                                                                  *)

\* variant: the stripped output is returned without the membership test
classify_query_unvalidated(out) == Strip(out)

classify_query(out) ==
    LET cat == Strip(out)
    IN  IF ~InList(cat, VALID_CATEGORIES) THEN <<"SOPs">> ELSE cat

----------------------------------------------------------------------------
(* hybrid_search: reciprocal rank fusion of the two ranked lists.          *)
(* A score 1/(k_constant + rank + 1) is held exactly, as the integer       *)
(* Scale/(k_constant + rank + 1) counting units of 1/Scale, where Scale is *)
(* a common multiple of every denominator that can occur.                  *)

RECURSIVE GCD(_, _)
GCD(a, b) == IF b = 0 THEN a ELSE GCD(b, a % b)

LCM(a, b) == (a \div GCD(a, b)) * b

MaxRankLen == IF MaxVec > MaxLex THEN MaxVec ELSE MaxLex

RECURSIVE LCMUpTo(_)
LCMUpTo(n) == IF n = 0 THEN 1 ELSE LCM(LCMUpTo(n - 1), k_constant + n)

Scale == LCMUpTo(MaxRankLen)

\* variant: the rank is taken as 1-based already
RRFTerm_no_plus_one(rank) == Scale \div (k_constant + rank)

\* 1 / (k_constant + rank + 1), in units of 1/Scale
RRFTerm(rank) == Scale \div (k_constant + rank + 1)

\* variant: the raw keyword results enter the fusion unfiltered
bm25_docs_unfiltered(retriever, raw, cat) ==
    IF retriever = None THEN <<>> ELSE raw

\* bm25_docs_filtered: [] without a retriever, else the raw result filtered
bm25_docs_filtered(retriever, raw, cat) ==
    IF retriever = None THEN <<>>
    ELSE SelectSeq(raw, LAMBDA doc : doc.category = cat)

\* variant: the first document with the page_content is kept
doc_map_first_wins(docs, content) ==
    LET i == CHOOSE i \in DOMAIN docs :
                 /\ docs[i].page_content = content
                 /\ \A j \in DOMAIN docs :
                        j < i => docs[j].page_content # content
    IN  docs[i]

\* doc_map[content] after the loop over vector_docs + bm25_docs_filtered:
\* a later document with the same page_content overwrites an earlier one
doc_map(docs, content) ==
    LET i == CHOOSE i \in DOMAIN docs :
                 /\ docs[i].page_content = content
                 /\ \A j \in DOMAIN docs :
                        j > i => docs[j].page_content # content
    IN  docs[i]

\* variant: every term makes an entry of its own
AddScore_append(scores, content, term) == Append(scores, <<content, term>>)

\* variant: a text that has a score gets no further term
AddScore_keep_first(scores, content, term) ==
    IF \E i \in DOMAIN scores : scores[i][1] = content
    THEN scores
    ELSE Append(scores, <<content, term>>)

\* variant: the term replaces the entry instead of being added to it
AddScore_overwrite(scores, content, term) ==
    IF \E i \in DOMAIN scores : scores[i][1] = content
    THEN [i \in DOMAIN scores |->
             IF scores[i][1] = content THEN <<content, term>> ELSE scores[i]]
    ELSE Append(scores, <<content, term>>)

\* rrf_scores[content] = rrf_scores.get(content, 0) + term, on a dict kept
\* as the sequence of its (content, score) items in insertion order
AddScore(scores, content, term) ==
    IF \E i \in DOMAIN scores : scores[i][1] = content
    THEN [i \in DOMAIN scores |->
             IF scores[i][1] = content
             THEN <<content, scores[i][2] + term>>
             ELSE scores[i]]
    ELSE Append(scores, <<content, term>>)

\* for rank, doc in enumerate(docs): add the term of rank to doc's content
RECURSIVE ScoreList(_, _, _)
ScoreList(scores, docs, rank) ==
    IF docs = <<>> THEN scores
    ELSE ScoreList(AddScore(scores, Head(docs).page_content, RRFTerm(rank)),
                   Tail(docs), rank + 1)

rrf_scores(vdocs, filtered) == ScoreList(ScoreList(<<>>, vdocs, 0), filtered, 0)

\* variant: item goes in front of the elements of equal score
InsertDesc_unstable(sorted, item) ==
    LET n == Cardinality({i \in DOMAIN sorted : sorted[i][2] > item[2]})
    IN  SubSeq(sorted, 1, n) \o <<item>> \o SubSeq(sorted, n + 1, Len(sorted))

\* place item behind every element whose score is >= its own
InsertDesc(sorted, item) ==
    LET n == Cardinality({i \in DOMAIN sorted : sorted[i][2] >= item[2]})
    IN  SubSeq(sorted, 1, n) \o <<item>> \o SubSeq(sorted, n + 1, Len(sorted))

\* variant: reverse=True is missing, the order is ascending
RECURSIVE SortedAscending(_)
SortedAscending(items) ==
    IF items = <<>> THEN <<>>
    ELSE LET last == items[Len(items)]
             front == SortedAscending(SubSeq(items, 1, Len(items) - 1))
             n == Cardinality({i \in DOMAIN front : front[i][2] <= last[2]})
         IN  SubSeq(front, 1, n) \o <<last>>
                 \o SubSeq(front, n + 1, Len(front))

\* sorted(items, key=score, reverse=True): descending and stable (items of
\* equal score keep their order in items)
RECURSIVE SortedDesc(_)
SortedDesc(items) ==
    IF items = <<>> THEN <<>>
    ELSE InsertDesc(SortedDesc(SubSeq(items, 1, Len(items) - 1)),
                    items[Len(items)])

sorted_contents(vdocs, filtered) == SortedDesc(rrf_scores(vdocs, filtered))

combined_docs(vdocs, filtered) ==
    LET sc == sorted_contents(vdocs, filtered)
    IN  [i \in DOMAIN sc |-> doc_map(vdocs \o filtered, sc[i][1])]

\* variant: the whole fused list is returned
hybrid_search_untruncated(vdocs, retriever, raw, cat, k) ==
    combined_docs(vdocs, bm25_docs_filtered(retriever, raw, cat))

\* combined_docs[:k]
hybrid_search(vdocs, retriever, raw, cat, k) ==
    LET combined == combined_docs(vdocs, bm25_docs_filtered(retriever, raw, cat))
    IN  SubSeq(combined, 1, Min(k, Len(combined)))

----------------------------------------------------------------------------
(* What the external collaborators may answer during a session *)

Queries == { <<"q1">>, <<" ", "q2">> }

RephraseOutputs == { <<" ", "r1", "\n">> }

ClassifierOutputs ==
    { <<"HR_Manual">>, <<" ", "HR_Manual", "\n">>, <<"HR_Manual", ".">>,
      <<"Bananas">>, <<>> }

Answers == { <<"a1", "\n">> }

SummarizerOutputs == { <<" ", "s1", "\n">>, <<>> }

\* results of the semantic index for a category (native filter honoured)
SessionVectorResults(cat) ==
    { <<>>, <<Doc("B", cat, "f1.pdf"), Doc("A", cat, "f1.pdf")>> }

\* raw results of the keyword index, over all categories
SessionBM25Results(cat) ==
    { <<>>,
      <<Doc("X", <<"Legal_Contracts">>, "f3.pdf"), Doc("A", cat, "f2.pdf")>> }

----------------------------------------------------------------------------
(* The session: RAGChatBot and retrieval_augmented_generation *)

SessionInit ==
    /\ chat_history = <<>>
    /\ summary = <<>>
    /\ bm25_retriever \in {None, "index"}
    /\ pc = "idle"
    /\ user_query = NoText
    /\ standalone_query = NoText
    /\ category = NoText
    /\ results = <<>>
    /\ final_answer = NoText
    /\ ret = NoReturn
    /\ llm_out = NoText
    /\ rephrase_calls = 0
    /\ calls_before = "none"
    /\ n_appends = 0
    /\ n_compactions = 0
    /\ appended = <<>>
    /\ made = <<>>
    /\ calls = <<>>
    /\ error = None
    /\ turn_start = <<<<>>, <<>>>>
    /\ compactions = <<>>

SearchIdle ==
    /\ vector_docs = <<>>
    /\ bm25_docs_raw = <<>>
    /\ search_category = NoText
    /\ search_k = 0
    /\ search_filtered = <<>>
    /\ search_scores = <<>>
    /\ search_out = <<>>

\* the user sessions of the application, each with its own RAGChatBot
Sessions == {1, 2}

\* variant: chat_history is one list for all objects (a class attribute)
AllocList_shared(s) == 1

\* main.py:41  self.chat_history = []: a new list for each object
AllocList(s) == s

NoTurn == [user_query |-> NoText, standalone_query |-> NoText,
           final_answer |-> NoText]

NoPrompt == [summary |-> NoText, history |-> <<>>, context |-> <<>>]

NoLast == [kind |-> None, standalone_query |-> NoText, category |-> NoText,
           results |-> <<>>, final_answer |-> NoText, shown |-> NoPrompt]

\* main.py:34-49  the objects RAGChatBot(memory_type=modes[s])
Constructed(modes) ==
    /\ bots = [s \in Sessions |->
                  [chat_history |-> AllocList(s), summary |-> <<>>,
                   memory_type |-> modes[s], bm25_retriever |-> "index"]]
    /\ heap = [r \in {AllocList(s) : s \in Sessions} |-> <<>>]
    /\ pending = [s \in Sessions |-> NoTurn]
    /\ own_turns = [s \in Sessions |-> <<>>]
    /\ acting = 0
    /\ last_call = [s \in Sessions |-> NoLast]

IsoIdle == Constructed([s \in Sessions |-> "top_k"])

\* the chunks that ingestion number g writes
CompleteIndex(g) == {<<g, i>> : i \in 1..ChunksPerBuild}

Unread == [read |-> FALSE, chunks |-> {}, during |-> "idle"]

\* a complete collection is at DB_DIR and nobody rebuilds or searches
StoreIdle ==
    /\ store = [exists |-> TRUE, chunks |-> CompleteIndex(0)]
    /\ archive = {}
    /\ ingest_pc = "idle"
    /\ n_rebuilds = 0
    /\ reader_pc = [s \in Sessions |-> "idle"]
    /\ observed = [s \in Sessions |-> Unread]

Init == SessionInit /\ SearchIdle /\ IsoIdle /\ StoreIdle

\* the locals of the call are gone once it has returned or raised
ClearLocals ==
    /\ user_query' = NoText
    /\ standalone_query' = NoText
    /\ category' = NoText
    /\ results' = <<>>
    /\ final_answer' = NoText
    /\ llm_out' = NoText
    /\ rephrase_calls' = 0
    /\ calls_before' = "none"

\* an external call raised: the exception leaves the call
Raise ==
    /\ pc' = "idle"
    /\ ret' = [kind |-> Raised, answer |-> NoText, category |-> NoText]
    /\ ClearLocals

Return(answer, cat) ==
    /\ pc' = "idle"
    /\ ret' = [kind |-> "returned", answer |-> answer, category |-> cat]
    /\ ClearLocals

\* the exceptions of the OpenAI client (chat completions, and the embedding
\* of the query inside similarity_search) and of the Chroma store
GenerationErrors == {"openai.APIConnectionError"}
IndexErrors == {"openai.APIConnectionError", "chromadb.errors.ChromaError"}

Log(log, op, outcome) == Append(log, [op |-> op, outcome |-> outcome])

Call(op, arg, out) == [op |-> op, arg |-> arg, out |-> out]

\* variant: a failed answer generation is caught and the turn goes on with
\* an empty answer
Fails_generation_caught(log, op, errs) ==
    /\ made' = Log(log, op, "failed")
    /\ calls' = IF log = <<>> THEN <<>> ELSE calls
    /\ \E e \in errs : error' = e
    /\ IF op = "generate"
       THEN /\ pc' = "append"
            /\ final_answer' = <<>>
            /\ llm_out' = NoText
            /\ UNCHANGED <<user_query, standalone_query, category, results,
                           ret, rephrase_calls, calls_before>>
       ELSE Raise

\* step op of the running call raised one of errs; nothing in
\* retrieval_augmented_generation catches it
Fails(log, op, errs) ==
    /\ Raise
    /\ made' = Log(log, op, "failed")
    /\ calls' = IF log = <<>> THEN <<>> ELSE calls
    /\ \E e \in errs : error' = e

\* step op of the running call ended without an exception
Done(op, outcome, arg, out) ==
    /\ made' = Log(made, op, outcome)
    /\ calls' = Append(calls, Call(op, arg, out))
    /\ UNCHANGED error

\* variant: the query as typed is classified
ClassifyArg_user(uq, sq) == uq

\* main.py:301  the argument of classify_query
ClassifyArg(uq, sq) == sq

\* main.py:311  the arguments of hybrid_search
SearchArgs(uq, sq, cat) == <<sq, cat, DefaultK>>

\* "\n\n".join(texts)
RECURSIVE JoinTexts(_)
JoinTexts(texts) ==
    IF texts = <<>> THEN <<>>
    ELSE IF Len(texts) = 1 THEN <<texts[1]>>
    ELSE <<texts[1], "\n\n">> \o JoinTexts(Tail(texts))

\* main.py:317  context_text
context_text(found) ==
    JoinTexts([i \in DOMAIN found |-> found[i].page_content])

\* main.py:350-356  what the answer generation is given besides the history:
\* the context inside the system prompt and the question
GenerateArgs(uq, sq, found) == <<context_text(found), sq>>

\* how the calls made before the one that begins ended, read off the log of
\* the last call and the count of stored turns: none was made, none stored a
\* turn (each raised or returned the empty-retrieval message), or one did
CallsBefore(log, n) ==
    IF log = <<>> THEN "none" ELSE IF n = 0 THEN "unstored" ELSE "stored"

\* main.py:294  standalone_query = self.rephrase_query(user_query)
Rephrase ==
    /\ pc = "idle"
    /\ n_appends < MaxTurns
    /\ \E q \in Queries :
        IF RephraseCallsGenerator(chat_history, summary)
        THEN \/ Fails(<<>>, "rephrase", GenerationErrors)
             \/ \E out \in RephraseOutputs :
                    /\ user_query' = q
                    /\ standalone_query' =
                           rephrase_query(q, chat_history, summary, out)
                    /\ llm_out' = out
                    /\ rephrase_calls' = 1
                    /\ calls_before' = CallsBefore(made, n_appends)
                    /\ pc' = "classify"
                    /\ ret' = NoReturn
                    /\ made' = Log(<<>>, "rephrase", "ok")
                    /\ calls' = <<Call("rephrase", <<q>>,
                                       standalone_query')>>
                    /\ error' = None
                    /\ UNCHANGED <<category, results, final_answer>>
        ELSE /\ user_query' = q
             /\ standalone_query' =
                    rephrase_query(q, chat_history, summary, NoText)
             /\ llm_out' = NoText
             /\ rephrase_calls' = 0
             /\ calls_before' = CallsBefore(made, n_appends)
             /\ pc' = "classify"
             /\ ret' = NoReturn
             /\ made' = Log(<<>>, "rephrase", "ok")
             /\ calls' = <<Call("rephrase", <<q>>, standalone_query')>>
             /\ error' = None
             /\ UNCHANGED <<category, results, final_answer>>
    /\ turn_start' = <<chat_history, summary>>
    /\ UNCHANGED <<chat_history, summary, bm25_retriever, n_appends,
                   n_compactions, appended, compactions, searchVars, isoVars, storeVars>>

\* main.py:301  category = self.classify_query(standalone_query)
Classify ==
    /\ pc = "classify"
    /\ \/ Fails(made, "classify", GenerationErrors)
       \/ \E out \in ClassifierOutputs :
            /\ category' = classify_query(out)
            /\ llm_out' = out
            /\ pc' = "search"
            /\ Done("classify", "ok",
                    <<ClassifyArg(user_query, standalone_query)>>,
                    category')
            /\ UNCHANGED <<user_query, standalone_query, results,
                           final_answer, ret, rephrase_calls,
                           calls_before>>
    /\ UNCHANGED <<chat_history, summary, bm25_retriever, n_appends,
                   n_compactions, appended, turn_start, compactions,
                   searchVars, isoVars, storeVars>>

\* variant: the empty result is not tested
NoResults_never(found) == FALSE

\* main.py:313  if not results
NoResults(found) == found = <<>>

\* variant: the turn without chunks is stored with the fixed answer
Search_records_empty_turn ==
    /\ pc = "search"
    /\ \/ Fails(made, "search", IndexErrors) /\ UNCHANGED chat_history
       \/ LET args == SearchArgs(user_query, standalone_query, category)
          IN  \E vdocs \in SessionVectorResults(args[2]),
                 raw \in SessionBM25Results(args[2]) :
            LET found == hybrid_search(vdocs, bm25_retriever, raw, args[2],
                                       args[3])
            IN  /\ made' = Log(made, "search",
                               IF Len(found) = 0 THEN "empty" ELSE "ok")
                /\ calls' = Append(calls, Call("search", args, found))
                /\ UNCHANGED error
                /\ IF NoResults(found)
                   THEN /\ Return(NoDocsAnswer, category)
                        /\ chat_history' =
                               Append(chat_history,
                                      <<user_query, NoDocsAnswer>>)
                   ELSE /\ results' = found
                        /\ llm_out' = NoText
                        /\ pc' = "generate"
                        /\ UNCHANGED <<user_query, standalone_query,
                                       category, final_answer, ret,
                                       rephrase_calls, calls_before,
                                       chat_history>>
    /\ UNCHANGED <<summary, bm25_retriever, n_appends,
                   n_compactions, appended, turn_start, compactions,
                   searchVars, isoVars, storeVars>>

\* main.py:311-314  results = self.hybrid_search(standalone_query, category,
\* k=5); an empty result returns the fixed answer
Search ==
    /\ pc = "search"
    /\ \/ Fails(made, "search", IndexErrors)
       \/ LET args == SearchArgs(user_query, standalone_query, category)
          IN  \E vdocs \in SessionVectorResults(args[2]),
                 raw \in SessionBM25Results(args[2]) :
            LET found == hybrid_search(vdocs, bm25_retriever, raw, args[2],
                                       args[3])
            IN  /\ made' = Log(made, "search",
                               IF Len(found) = 0 THEN "empty" ELSE "ok")
                /\ calls' = Append(calls, Call("search", args, found))
                /\ UNCHANGED error
                /\ IF NoResults(found)
                   THEN Return(NoDocsAnswer, category)
                   ELSE /\ results' = found
                        /\ llm_out' = NoText
                        /\ pc' = "generate"
                        /\ UNCHANGED <<user_query, standalone_query,
                                       category, final_answer, ret,
                                       rephrase_calls,
                                       calls_before>>
    /\ UNCHANGED <<chat_history, summary, bm25_retriever, n_appends,
                   n_compactions, appended, turn_start, compactions,
                   searchVars, isoVars, storeVars>>

\* main.py:350-358  the answer-generation call
Generate ==
    /\ pc = "generate"
    /\ \/ Fails(made, "generate", GenerationErrors)
       \/ \E out \in Answers :
            /\ final_answer' = out
            /\ llm_out' = out
            /\ pc' = "append"
            /\ Done("generate", "ok",
                    GenerateArgs(user_query, standalone_query, results), out)
            /\ UNCHANGED <<user_query, standalone_query, category, results,
                           ret, rephrase_calls, calls_before>>
    /\ UNCHANGED <<chat_history, summary, bm25_retriever, n_appends,
                   n_compactions, appended, turn_start, compactions,
                   searchVars, isoVars, storeVars>>

\* main.py:361  self.chat_history.append((user_query, final_answer))
AppendTurn ==
    /\ pc = "append"
    /\ chat_history' =
           Append(chat_history,
                  TurnToStore(user_query, standalone_query, final_answer))
    /\ appended' = Append(appended, <<user_query, final_answer>>)
    /\ n_appends' = n_appends + 1
    /\ llm_out' = NoText
    /\ pc' = "manage"
    /\ Done("append", "ok", <<<<user_query, final_answer>>>>, None)
    /\ UNCHANGED <<summary, bm25_retriever, user_query, standalone_query,
                   category, results, final_answer, ret, rephrase_calls,
                   calls_before, n_compactions, turn_start, compactions,
                   searchVars, isoVars, storeVars>>

\* variant: an empty summarizer output keeps the summary there was
NewSummary_keep_if_empty(summ, out) ==
    IF Strip(out) = <<>> THEN summ ELSE Strip(out)

\* main.py:119  self.summary = response.choices[0].message.content.strip()
NewSummary(summ, out) == Strip(out)

\* main.py:97-116  what the summarization prompt is built from
SummarizeArgs(summ, hist) == <<summ, hist[1]>>

\* the place in appended of the turn that pop(0) removes from hist
PoppedTurn(n, hist) == n - Len(hist) + 1

\* variant: the oldest turn is removed only once its summary is there
manage_history_pop_after_summary ==
    /\ pc = "manage"
    /\ IF HistoryExceeds(chat_history)
       THEN /\ n_compactions' = n_compactions + 1
            /\ \/ /\ Fails(made, "manage", GenerationErrors)
                  /\ compactions' =
                         Append(compactions,
                                [turn |-> PoppedTurn(n_appends, chat_history),
                                 outcome |-> "lost"])
                  /\ UNCHANGED <<chat_history, summary>>
               \/ \E out \in SummarizerOutputs :
                    /\ chat_history' = PopOldest(chat_history)
                    /\ summary' = NewSummary(summary, out)
                    /\ compactions' =
                         Append(compactions,
                                [turn |-> PoppedTurn(n_appends, chat_history),
                                 outcome |-> "summarised"])
                    /\ Return(final_answer, category)
                    /\ Done("manage", "ok",
                            SummarizeArgs(summary, chat_history), out)
       ELSE /\ Return(final_answer, category)
            /\ Done("manage", "ok", <<>>, NoText)
            /\ UNCHANGED <<chat_history, summary, n_compactions,
                           compactions>>
    /\ UNCHANGED <<bm25_retriever, n_appends, appended, turn_start,
                   searchVars, isoVars, storeVars>>

\* main.py:362-364  self.manage_history(); return final_answer, category
manage_history ==
    /\ pc = "manage"
    /\ IF HistoryExceeds(chat_history)
       THEN /\ chat_history' = PopOldest(chat_history)
            /\ n_compactions' = n_compactions + 1
            /\ \/ /\ Fails(made, "manage", GenerationErrors)
                  /\ compactions' =
                         Append(compactions,
                                [turn |-> PoppedTurn(n_appends, chat_history),
                                 outcome |-> "lost"])
                  /\ UNCHANGED summary
               \/ \E out \in SummarizerOutputs :
                    /\ summary' = NewSummary(summary, out)
                    /\ compactions' =
                         Append(compactions,
                                [turn |-> PoppedTurn(n_appends, chat_history),
                                 outcome |-> "summarised"])
                    /\ Return(final_answer, category)
                    /\ Done("manage", "ok",
                            SummarizeArgs(summary, chat_history), out)
       ELSE /\ Return(final_answer, category)
            /\ Done("manage", "ok", <<>>, NoText)
            /\ UNCHANGED <<chat_history, summary, n_compactions,
                           compactions>>
    /\ UNCHANGED <<bm25_retriever, n_appends, appended, turn_start,
                   searchVars, isoVars, storeVars>>

Next ==
    \/ Rephrase
    \/ Classify
    \/ Search
    \/ Generate
    \/ AppendTurn
    \/ manage_history

Spec == Init /\ [][Next]_vars

----------------------------------------------------------------------------
(* hybrid_search on its own: one call on results drawn from an index       *)

HR == <<"HR_Manual">>

\* the chunks of the index: two documents share the text A within one
\* category, a third carries it in another category, and one chunk has no
\* category metadata (metadata.get("category") is None)
Corpus ==
    { Doc("A", HR, "f1.pdf"), Doc("A", HR, "f2.pdf"),
      Doc("B", HR, "f1.pdf"), Doc("C", HR, "f1.pdf"),
      Doc("D", HR, "f2.pdf"), Doc("E", HR, "f2.pdf"),
      Doc("A", <<"SOPs">>, "f3.pdf"), Doc("F", NoText, "f4.pdf") }

SearchKs == {2, DefaultK}

SearchCategories == {HR}

Range(seq) == {seq[i] : i \in DOMAIN seq}

\* ranked lists of n different chunks
RECURSIVE RankedListsOfLen(_)
RankedListsOfLen(n) ==
    IF n = 0 THEN {<<>>}
    ELSE UNION { {Append(l, d) : d \in Corpus \ Range(l)} :
                 l \in RankedListsOfLen(n - 1) }

RankedLists(n) == UNION {RankedListsOfLen(m) : m \in 0..n}

SearchInit ==
    /\ SessionInit
    /\ IsoIdle
    /\ StoreIdle
    /\ search_k \in SearchKs
    /\ search_category \in SearchCategories
    /\ vector_docs \in RankedLists(Min(search_k, MaxVec))
    /\ bm25_docs_raw \in
           IF bm25_retriever = None THEN {<<>>}
           ELSE RankedLists(Min(MaxLex, MaxDocs - Len(vector_docs)))
    /\ search_filtered = <<>>
    /\ search_scores = <<>>
    /\ search_out = <<>>

\* main.py:225-281  one call hybrid_search(query, category, k)
HybridSearchCall ==
    /\ pc = "idle"
    /\ search_filtered' =
           bm25_docs_filtered(bm25_retriever, bm25_docs_raw, search_category)
    /\ search_scores' =
           rrf_scores(vector_docs,
                      bm25_docs_filtered(bm25_retriever, bm25_docs_raw,
                                         search_category))
    /\ search_out' = hybrid_search(vector_docs, bm25_retriever, bm25_docs_raw,
                                   search_category, search_k)
    /\ pc' = "searched"
    /\ UNCHANGED <<chat_history, summary, bm25_retriever, user_query,
                   standalone_query, category, results, final_answer, ret,
                   llm_out, rephrase_calls, calls_before, n_appends,
                   n_compactions, appended, made, calls, error, turn_start, compactions,
                   vector_docs, bm25_docs_raw, search_category, search_k,
                   isoVars, storeVars>>

SearchNext == HybridSearchCall

SpecSearch == SearchInit /\ [][SearchNext]_vars

----------------------------------------------------------------------------
(* Several user sessions: each has its own RAGChatBot object; a call is
   taken in two steps, up to the answer (which reads the memory) and the
   memory update (which writes it), so that calls of different sessions
   overlap *)

\* what the generator and the two indexes give back during one call up to
\* the answer, and which of the steps raises
AnswerOutcomes ==
    [fail : {None, "rephrase", "classify", "search", "generate"},
     rephrase : RephraseOutputs,
     classify : {<<"HR_Manual">>, <<"Bananas">>},
     found : BOOLEAN,
     answer : Answers]

\* what the summarization call gives back, and whether it raises
UpdateOutcomes == [fail : BOOLEAN, summarize : SummarizerOutputs]

\* the typed text of a query of session s
SessionQueries(s) ==
    IF s = 1 THEN {<<"S1", "q1">>, <<"S1", " ", "q2">>} ELSE {<<"S2", "q1">>}

\* main.py:321-348  what the system prompt shows of the memory and the chunks
system_prompt(memory_type, summ, hist, ctx) ==
    [summary |-> IF memory_type = "summary"
                 THEN IF summ # <<>> THEN summ
                      ELSE <<"No previous summary.">>
                 ELSE NoText,
     history |-> hist,
     context |-> ctx]

\* main.py:294-358  retrieval_augmented_generation up to final_answer, on the
\* object self whose chat_history list holds hist
AnswerTurn(self, hist, q, ext) ==
    LET sq == rephrase_query(q, hist, self.summary, ext.rephrase)
        cat == classify_query(ext.classify)
        vdocs == IF ext.found
                 THEN <<Doc("B", cat, "f1.pdf"), Doc("A", cat, "f1.pdf")>>
                 ELSE <<>>
        raw == IF ext.found
               THEN <<Doc("X", <<"Legal_Contracts">>, "f3.pdf"),
                      Doc("A", cat, "f2.pdf")>>
               ELSE <<>>
        found == hybrid_search(vdocs, self.bm25_retriever, raw, cat,
                               DefaultK)
    IN  IF ext.fail = "rephrase"
               /\ RephraseCallsGenerator(hist, self.summary)
        THEN [NoLast EXCEPT !.kind = Raised]
        ELSE IF ext.fail = "classify"
        THEN [NoLast EXCEPT !.kind = Raised, !.standalone_query = sq]
        ELSE IF ext.fail = "search"
        THEN [NoLast EXCEPT !.kind = Raised, !.standalone_query = sq,
                            !.category = cat]
        ELSE IF NoResults(found)
        THEN [NoLast EXCEPT !.kind = "returned", !.standalone_query = sq,
                            !.category = cat,
                            !.final_answer = NoDocsAnswer]
        ELSE IF ext.fail = "generate"
        THEN [NoLast EXCEPT !.kind = Raised, !.standalone_query = sq,
                            !.category = cat, !.results = found,
                            !.shown = system_prompt(self.memory_type,
                                                    self.summary, hist,
                                                    context_text(found))]
        ELSE [kind |-> "answered", standalone_query |-> sq,
              category |-> cat, results |-> found,
              final_answer |-> ext.answer,
              shown |-> system_prompt(self.memory_type, self.summary, hist,
                                      context_text(found))]

\* the append and manage_history for the turn, whatever memory_type is
Compacted(memory_type, hist, summ, turn, ext) ==
    LET all == Append(hist, turn)
    IN  IF HistoryExceeds(all)
        THEN IF ext.fail
             THEN [chat_history |-> PopOldest(all), summary |-> summ,
                   kind |-> Raised]
             ELSE [chat_history |-> PopOldest(all),
                   summary |-> NewSummary(summ, ext.summarize),
                   kind |-> "returned"]
        ELSE [chat_history |-> all, summary |-> summ, kind |-> "returned"]

\* variant: only the "summary" mode summarizes, "top_k" just drops the turn
UpdateMemory_by_mode(memory_type, hist, summ, turn, ext) ==
    IF memory_type = "summary"
    THEN Compacted(memory_type, hist, summ, turn, ext)
    ELSE LET all == Append(hist, turn)
         IN  [chat_history |-> IF HistoryExceeds(all) THEN PopOldest(all)
                               ELSE all,
              summary |-> summ, kind |-> "returned"]

\* main.py:361-362 with 87-120  the memory after the append and manage_history
UpdateMemory(memory_type, hist, summ, turn, ext) ==
    Compacted(memory_type, hist, summ, turn, ext)

\* the outcomes that decide whether a call of an interleaved session gets
\* as far as the memory update
OverlapOutcomes ==
    {ext \in AnswerOutcomes :
        ext.fail \in {None, "generate"} /\ ext.classify = <<"HR_Manual">>}

\* two sessions are constructed with the default memory_type
IsoInit ==
    /\ SessionInit
    /\ bm25_retriever = "index"
    /\ SearchIdle
    /\ StoreIdle
    /\ IsoIdle

\* session s: retrieval_augmented_generation up to the answer
StartTurn(s) ==
    /\ pending[s] = NoTurn
    /\ Len(own_turns[s]) < MaxSessionTurns
    /\ \E q \in SessionQueries(s), ext \in OverlapOutcomes :
        LET r == AnswerTurn(bots[s], heap[bots[s].chat_history], q, ext)
        IN  pending' = [pending EXCEPT ![s] =
                IF r.kind = "answered"
                THEN [user_query |-> q,
                      standalone_query |-> r.standalone_query,
                      final_answer |-> r.final_answer]
                ELSE NoTurn]
    /\ acting' = s
    /\ UNCHANGED <<heap, bots, own_turns, last_call, sessionVars,
                   searchVars, storeVars>>

\* session s: the append and manage_history of the answered turn
StoreTurn(s) ==
    /\ pending[s] # NoTurn
    /\ \E ext \in UpdateOutcomes :
        LET self == bots[s]
            turn == TurnToStore(pending[s].user_query,
                                pending[s].standalone_query,
                                pending[s].final_answer)
            m == UpdateMemory(self.memory_type, heap[self.chat_history],
                              self.summary, turn, ext)
        IN  /\ heap' = [heap EXCEPT ![self.chat_history] = m.chat_history]
            /\ bots' = [bots EXCEPT ![s].summary = m.summary]
            /\ own_turns' = [own_turns EXCEPT ![s] = Append(@, turn)]
    /\ pending' = [pending EXCEPT ![s] = NoTurn]
    /\ acting' = s
    /\ UNCHANGED <<last_call, sessionVars, searchVars, storeVars>>

IsoNext == \E s \in Sessions : StartTurn(s) \/ StoreTurn(s)

SpecIso == IsoInit /\ [][IsoNext]_vars

\* two sessions that differ in memory_type only
ModesInit ==
    /\ SessionInit
    /\ bm25_retriever = "index"
    /\ SearchIdle
    /\ StoreIdle
    /\ Constructed([s \in Sessions |->
                       IF s = 1 THEN "top_k" ELSE "summary"])

\* both sessions are given the same query and the same outcomes of the
\* external calls for one whole turn
SameTurn ==
    /\ \A s \in Sessions : Len(own_turns[s]) < MaxSessionTurns
    /\ \E q \in Queries, ext \in AnswerOutcomes, upd \in UpdateOutcomes :
        LET r == [s \in Sessions |->
                     AnswerTurn(bots[s], heap[bots[s].chat_history], q, ext)]
            turn == [s \in Sessions |->
                        TurnToStore(q, r[s].standalone_query,
                                    r[s].final_answer)]
            m == [s \in Sessions |->
                     IF r[s].kind = "answered"
                     THEN UpdateMemory(bots[s].memory_type,
                                       heap[bots[s].chat_history],
                                       bots[s].summary, turn[s], upd)
                     ELSE [chat_history |-> heap[bots[s].chat_history],
                           summary |-> bots[s].summary, kind |-> r[s].kind]]
        IN  /\ last_call' = r
            /\ heap' = [ref \in DOMAIN heap |->
                           LET s == CHOOSE t \in Sessions :
                                        bots[t].chat_history = ref
                           IN  m[s].chat_history]
            /\ bots' = [s \in Sessions |->
                           [bots[s] EXCEPT !.summary = m[s].summary]]
            /\ own_turns' = [s \in Sessions |->
                                IF r[s].kind = "answered"
                                THEN Append(own_turns[s], turn[s])
                                ELSE own_turns[s]]
    /\ acting' = 0
    /\ UNCHANGED <<pending, sessionVars, searchVars, storeVars>>

ModesNext == SameTurn

SpecModes == ModesInit /\ [][ModesNext]_vars

----------------------------------------------------------------------------
(* The collection at DB_DIR: the Process Documents handler rebuilds it while
   the sessions search it *)

RebuildInit ==
    /\ SessionInit
    /\ bm25_retriever = "index"
    /\ SearchIdle
    /\ IsoIdle
    /\ StoreIdle

\* app.py:178-188  the button is pressed; the handler drops its own bot
ProcessDocuments ==
    /\ ingest_pc = "idle"
    /\ n_rebuilds < MaxRebuilds
    /\ ingest_pc' = "archive"
    /\ n_rebuilds' = n_rebuilds + 1
    /\ UNCHANGED <<store, archive, reader_pc, observed, sessionVars,
                   searchVars, isoVars>>

\* vector_store.py:47-62  os.rename of the directory; an exception of the
\* rename is printed and ingestion goes on
ArchiveStore ==
    /\ ingest_pc = "archive"
    /\ \/ /\ store.exists
          /\ archive' = store.chunks
          /\ store' = [exists |-> FALSE, chunks |-> {}]
       \/ UNCHANGED <<store, archive>>
    /\ ingest_pc' = "ingest"
    /\ UNCHANGED <<n_rebuilds, reader_pc, observed, sessionVars, searchVars,
                   isoVars>>

\* the batches of this ingestion not yet in the collection
Missing == CompleteIndex(n_rebuilds) \ store.chunks

\* vector_store.py:160-177  with force_regenerate db_exists is False:
\* Chroma.from_documents writes the chunks into the directory, batch by batch
WriteBatch ==
    /\ ingest_pc = "ingest"
    /\ Missing # {}
    /\ LET c == CHOOSE m \in Missing : \A o \in Missing : m[2] <= o[2]
       IN  /\ store' = [exists |-> TRUE, chunks |-> store.chunks \cup {c}]
           /\ ingest_pc' = IF Missing = {c} THEN "reopen" ELSE "ingest"
    /\ UNCHANGED <<archive, n_rebuilds, reader_pc, observed, sessionVars,
                   searchVars, isoVars>>

\* app.py:193-195  the handler makes its new RAGChatBot
ReopenBot ==
    /\ ingest_pc = "reopen"
    /\ ingest_pc' = "idle"
    /\ UNCHANGED <<store, archive, n_rebuilds, reader_pc, observed,
                   sessionVars, searchVars, isoVars>>

\* app.py:227-240  a chat input of session s: DB_DIR exists, the call starts
BeginSearch(s) ==
    /\ reader_pc[s] = "idle"
    /\ store.exists
    /\ reader_pc' = [reader_pc EXCEPT ![s] = "searching"]
    /\ UNCHANGED <<store, archive, ingest_pc, n_rebuilds, observed,
                   sessionVars, searchVars, isoVars>>

\* main.py:229-231  similarity_search of session s reads the collection:
\* what is at DB_DIR now or, through the files its client opened before the
\* rename, the renamed collection
ReadIndex(s) ==
    /\ reader_pc[s] = "searching"
    /\ \E seen \in {store.chunks} \cup (IF archive = {} THEN {}
                                        ELSE {archive}) :
           observed' = [observed EXCEPT ![s] =
                           [read |-> TRUE, chunks |-> seen,
                            during |-> ingest_pc]]
    /\ reader_pc' = [reader_pc EXCEPT ![s] = "idle"]
    /\ UNCHANGED <<store, archive, ingest_pc, n_rebuilds, sessionVars,
                   searchVars, isoVars>>

RebuildNext ==
    \/ ProcessDocuments
    \/ ArchiveStore
    \/ WriteBatch
    \/ ReopenBot
    \/ \E s \in Sessions : BeginSearch(s)
    \/ \E s \in Sessions : ReadIndex(s)

SpecRebuild == RebuildInit /\ [][RebuildNext]_vars

----------------------------------------------------------------------------
(* Properties of the session *)

LastN(seq, n) == SubSeq(seq, Len(seq) - n + 1, Len(seq))

AllWhitespace(s) == \A i \in DOMAIN s : s[i] \in Whitespace

\* t is raw without its leading and trailing whitespace
IsTrimOf(t, raw) ==
    /\ \E i, j \in 0..Len(raw) :
        /\ i + Len(t) + j = Len(raw)
        /\ AllWhitespace(SubSeq(raw, 1, i))
        /\ t = SubSeq(raw, i + 1, i + Len(t))
        /\ AllWhitespace(SubSeq(raw, i + Len(t) + 1, Len(raw)))
    /\ t # <<>> => (t[1] \notin Whitespace /\ t[Len(t)] \notin Whitespace)

CallFinished == pc = "idle"

\* C1: whenever a call of retrieval_augmented_generation has finished,
\* by returning or by raising, chat_history holds at most max_history_len
\* turns.
C1_HistoryBounded == CallFinished => Len(chat_history) <= max_history_len

\* a call that appended a sixth turn and then raised in the summarization
C1_Witness ==
    /\ CallFinished
    /\ ret.kind = Raised
    /\ n_compactions > 0
    /\ Len(chat_history) = max_history_len

\* C2: after N appends on a fresh session, N > W gives exactly W turns and
\* exactly N - W summarization calls; N <= W gives no summarization call.
C2_WindowAndCompactions ==
    CallFinished =>
        IF n_appends > max_history_len
        THEN /\ Len(chat_history) = max_history_len
             /\ n_compactions = n_appends - max_history_len
        ELSE n_compactions = 0

C2_Witness ==
    /\ CallFinished
    /\ n_appends = max_history_len + 1
    /\ n_compactions = 1
    /\ Len(chat_history) = max_history_len

\* C3: after N appended turns chat_history is the last min(N, W) of them in
\* chronological order, each the pair (query as typed, answer text).
C3_LastTurnsKept ==
    CallFinished =>
        chat_history = LastN(appended, Min(n_appends, max_history_len))

\* the oldest turn is gone and a kept turn's query differs from the
\* standalone query it was rephrased to
C3_Witness ==
    /\ CallFinished
    /\ n_appends > max_history_len
    /\ chat_history[1] = appended[2]
    /\ chat_history[1] # appended[1]
    /\ chat_history[max_history_len][1] = <<" ", "q2">>

\* C4: rephrase_query returns the query unchanged without a generation call
\* when chat_history and summary are both empty, and otherwise makes one
\* generation call and returns its output without surrounding whitespace.
C4_RephraseContract ==
    pc = "classify" =>
        IF chat_history = <<>> /\ summary = <<>>
        THEN /\ standalone_query = user_query
             /\ rephrase_calls = 0
        ELSE /\ rephrase_calls = 1
             /\ IsTrimOf(standalone_query, llm_out)

C4_Witness ==
    /\ pc = "classify"
    /\ chat_history # <<>>
    /\ rephrase_calls = 1
    /\ llm_out = <<" ", "r1", "\n">>
    /\ standalone_query = <<"r1">>

\* C5: the category that classify_query returns, that is passed to
\* hybrid_search and that the call returns is in VALID_CATEGORIES; a
\* generator output that is no category once trimmed gives SOPs.
C5_CategoryValid ==
    /\ pc \in {"search", "generate", "append", "manage"} =>
           InList(category, VALID_CATEGORIES)
    /\ ret.kind = "returned" => InList(ret.category, VALID_CATEGORIES)
    /\ (/\ pc = "search"
        /\ \A i \in DOMAIN VALID_CATEGORIES :
               ~IsTrimOf(VALID_CATEGORIES[i], llm_out))
           => category = <<"SOPs">>

C5_Witness ==
    /\ pc = "search"
    /\ llm_out = <<"Bananas">>
    /\ category = <<"SOPs">>

\* raw is the text c with characters of chars before and behind it
WrappedIn(c, raw, chars) ==
    \E i \in 0..Len(raw) :
        /\ i + Len(c) <= Len(raw)
        /\ c = SubSeq(raw, i + 1, i + Len(c))
        /\ \A j \in DOMAIN raw :
               (j <= i \/ j > i + Len(c)) => raw[j] \in chars

\* C6: a generator output that is a category preceded or followed by
\* whitespace or punctuation is classified as that category.
C6_PunctuationTrimmed ==
    \A i \in DOMAIN VALID_CATEGORIES :
        (pc = "search"
         /\ WrappedIn(VALID_CATEGORIES[i], llm_out, Whitespace \cup Punctuation))
            => category = VALID_CATEGORIES[i]

----------------------------------------------------------------------------
(* Properties of hybrid_search *)

Searched == pc = "searched"

\* the lexical list that enters the fusion
LexicalList ==
    bm25_docs_filtered(bm25_retriever, bm25_docs_raw, search_category)

Texts(list) == {list[i].page_content : i \in DOMAIN list}

Ranks(list, text) == {i - 1 : i \in {j \in DOMAIN list : list[j].page_content = text}}

AtMostOncePerList ==
    /\ \A t \in Texts(vector_docs) : Cardinality(Ranks(vector_docs, t)) = 1
    /\ \A t \in Texts(LexicalList) : Cardinality(Ranks(LexicalList, t)) = 1

\* 1/d in units of 1/Scale
Reciprocal(d) == Scale \div d

\* what a list in which text occurs at most once contributes to its score
Contribution(list, text) ==
    IF text \in Texts(list)
    THEN Reciprocal(60 + (CHOOSE r \in Ranks(list, text) : TRUE) + 1)
    ELSE 0

ScoreOf(text) ==
    LET i == CHOOSE i \in DOMAIN search_scores : search_scores[i][1] = text
    IN  search_scores[i][2]

\* position at which text is first met scanning vector list, then lexical
FirstSeen(text) ==
    LET all == vector_docs \o LexicalList
    IN  CHOOSE i \in DOMAIN all :
            /\ all[i].page_content = text
            /\ \A j \in DOMAIN all : all[j].page_content = text => i <= j

\* text a is ranked before text b by the fusion
RankedBefore(a, b) ==
    \/ ScoreOf(a) > ScoreOf(b)
    \/ ScoreOf(a) = ScoreOf(b) /\ FirstSeen(a) < FirstSeen(b)

\* C7: when each text occurs at most once per list, the fused score of each
\* distinct chunk is the sum over the lists containing it of
\* 1/(60 + rank + 1), and every chunk of either list has exactly one score.
C7_FusedScores ==
    (Searched /\ AtMostOncePerList) =>
        /\ \A d \in 61..(60 + MaxRankLen) : Scale % d = 0
        /\ {search_scores[i][1] : i \in DOMAIN search_scores}
               = Texts(vector_docs) \cup Texts(LexicalList)
        /\ \A i, j \in DOMAIN search_scores :
               search_scores[i][1] = search_scores[j][1] => i = j
        /\ \A i \in DOMAIN search_scores :
               search_scores[i][2] =
                   Contribution(vector_docs, search_scores[i][1])
                   + Contribution(LexicalList, search_scores[i][1])

\* one text in both lists at different ranks, one in the vector list only,
\* one in the lexical list only
C7_Witness ==
    /\ Searched
    /\ AtMostOncePerList
    /\ \E t \in Texts(vector_docs) \cap Texts(LexicalList) :
           Ranks(vector_docs, t) # Ranks(LexicalList, t)
    /\ Texts(vector_docs) \ Texts(LexicalList) # {}
    /\ Texts(LexicalList) \ Texts(vector_docs) # {}

\* C8: the returned ranking is in non-increasing score order, and chunks of
\* equal score are in the order in which they were first met, vector list
\* before lexical list.
C8_SortedStable ==
    Searched =>
        \A i, j \in DOMAIN search_out :
            i < j => RankedBefore(search_out[i].page_content,
                                  search_out[j].page_content)

\* a vector-only chunk and a lexical-only chunk at the same rank: a tie,
\* returned vector chunk first
C8_Witness ==
    /\ Searched
    /\ \E i, j \in DOMAIN search_out :
        LET a == search_out[i].page_content
            b == search_out[j].page_content
        IN  /\ i < j
            /\ a \in Texts(vector_docs) \ Texts(LexicalList)
            /\ b \in Texts(LexicalList) \ Texts(vector_docs)
            /\ Ranks(vector_docs, a) = Ranks(LexicalList, b)
            /\ ScoreOf(a) = ScoreOf(b)

InBoth(t) == t \in Texts(vector_docs) \cap Texts(LexicalList)

InOne(t) ==
    /\ t \in Texts(vector_docs) \cup Texts(LexicalList)
    /\ ~InBoth(t)

PositionsOf(t) == {i \in DOMAIN search_out : search_out[i].page_content = t}

\* a scores higher than b and, if b is returned, a is returned before it
Ahead(a, b) ==
    /\ ScoreOf(a) > ScoreOf(b)
    /\ \A j \in PositionsOf(b) : \E i \in PositionsOf(a) : i < j

\* C9 as stated: a chunk in both lists is ranked ahead of every chunk that
\* is in one list only, for all lists.
C9_BothListsFirst ==
    Searched =>
        \A a, b \in Texts(vector_docs) \cup Texts(LexicalList) :
            (InBoth(a) /\ InOne(b)) => Ahead(a, b)

\* C9 amended: when each text occurs at most once per list, a chunk in both
\* lists is ranked ahead of every chunk that is in one list only.
C9_BothListsFirstOncePerList ==
    (Searched /\ AtMostOncePerList) =>
        \A a, b \in Texts(vector_docs) \cup Texts(LexicalList) :
            (InBoth(a) /\ InOne(b)) => Ahead(a, b)

\* vector list A, B, C and lexical list B, D: B is returned first
C9_Witness ==
    /\ Searched
    /\ search_k = 5
    /\ [i \in DOMAIN vector_docs |-> vector_docs[i].page_content]
           = <<"A", "B", "C">>
    /\ [i \in DOMAIN LexicalList |-> LexicalList[i].page_content]
           = <<"B", "D">>
    /\ search_out[1].page_content = "B"
    /\ ScoreOf("B") > ScoreOf("A")

\* C10: hybrid_search returns min(k, D) chunks, D the number of distinct
\* texts of vector list and lexical list, and they are the k best of the
\* fused ranking, best first.
C10_TopK ==
    Searched =>
        LET D == Cardinality(Texts(vector_docs) \cup Texts(LexicalList))
        IN  /\ Len(search_out) = Min(search_k, D)
            /\ \A i, j \in DOMAIN search_out :
                   i < j => RankedBefore(search_out[i].page_content,
                                         search_out[j].page_content)
            /\ \A i \in DOMAIN search_out :
               \A t \in (Texts(vector_docs) \cup Texts(LexicalList))
                            \ Texts(search_out) :
                   RankedBefore(search_out[i].page_content, t)

\* k = 2 over five distinct chunks
C10_Witness ==
    /\ Searched
    /\ search_k = 2
    /\ Cardinality(Texts(vector_docs) \cup Texts(LexicalList)) = 5
    /\ Len(search_out) = 2

\* the positions of raw whose chunk carries the category cat
Kept(raw, cat) == {i \in DOMAIN raw : raw[i].category = cat}

\* C11: the lexical list that enters the fusion holds exactly the chunks of
\* the raw keyword result whose category is the requested one, in their
\* raw order; a chunk of another category, or of none, adds no score and is
\* returned only if the vector list holds it.
C11_LexicalFilter ==
    (Searched /\ bm25_retriever # None) =>
        LET keep == Kept(bm25_docs_raw, search_category)
        IN  /\ Len(search_filtered) = Cardinality(keep)
            /\ \A i \in keep :
                   search_filtered[Cardinality({j \in keep : j <= i})]
                       = bm25_docs_raw[i]
            /\ \A i \in DOMAIN bm25_docs_raw \ keep :
                   LET t == bm25_docs_raw[i].page_content
                   IN  (/\ t \notin Texts(vector_docs)
                        /\ \A j \in keep : bm25_docs_raw[j].page_content # t)
                       => /\ \A n \in DOMAIN search_scores :
                                 search_scores[n][1] # t
                          /\ t \notin Texts(search_out)
            /\ \A n \in DOMAIN search_out :
                   search_out[n].category # search_category
                       => search_out[n] \in Range(vector_docs)

\* a raw result of three chunks whose middle one is of another category
C11_Witness ==
    /\ Searched
    /\ bm25_retriever # None
    /\ Len(bm25_docs_raw) = 3
    /\ bm25_docs_raw[2].category # search_category
    /\ search_filtered = <<bm25_docs_raw[1], bm25_docs_raw[3]>>
    /\ bm25_docs_raw[2].page_content \notin Texts(search_out)

DistinctTexts(list) ==
    \A i, j \in DOMAIN list :
        list[i].page_content = list[j].page_content => i = j

\* C12 as stated: without a keyword index the lexical list is empty and
\* hybrid_search returns the vector list in its order, cut to k.
C12_SemanticOnly ==
    (Searched /\ bm25_retriever = None) =>
        /\ search_filtered = <<>>
        /\ search_out =
               SubSeq(vector_docs, 1, Min(search_k, Len(vector_docs)))

\* C12 amended: the same, for a vector list whose texts are all different.
C12_SemanticOnlyDistinct ==
    (Searched /\ bm25_retriever = None /\ DistinctTexts(vector_docs)) =>
        /\ search_filtered = <<>>
        /\ search_out =
               SubSeq(vector_docs, 1, Min(search_k, Len(vector_docs)))

C12_Witness ==
    /\ Searched
    /\ bm25_retriever = None
    /\ Len(vector_docs) = 3
    /\ DistinctTexts(vector_docs)
    /\ search_out = vector_docs

Last(log) == log[Len(log)]

Ops(log) == [i \in DOMAIN log |-> log[i].op]

HasOp(log, op) == \E i \in DOMAIN log : log[i].op = op

\* C13: a turn whose hybrid_search gives no chunk returns the fixed answer
\* with the category the classifier produced, and makes no answer-generation
\* call.
C13_EmptyShortCircuit ==
    (made # <<>> /\ Last(made) = [op |-> "search", outcome |-> "empty"]) =>
        /\ CallFinished
        /\ ret = [kind |-> "returned", answer |-> NoDocsAnswer,
                  category |-> calls[2].out]
        /\ calls[2].op = "classify"
        /\ calls[3].op = "search" /\ calls[3].out = <<>>
        /\ ~HasOp(made, "generate")
        /\ ~HasOp(made, "append")

C13_Witness ==
    /\ CallFinished
    /\ made # <<>>
    /\ Last(made) = [op |-> "search", outcome |-> "empty"]
    /\ ret.answer = NoDocsAnswer
    /\ ret.category = <<"HR_Manual">>
    /\ chat_history # <<>>

BeforeMemoryUpdate == {"rephrase", "classify", "search", "generate"}

\* C14: when the rephrase, classification, retrieval or answer-generation
\* step fails, the call ends there with the exception and chat_history and
\* summary are what they were when the call began; a turn is appended only
\* after the answer generation has succeeded.
C14_FailureLeavesMemory ==
    /\ \A i \in DOMAIN made :
           (made[i].op \in BeforeMemoryUpdate /\ made[i].outcome = "failed")
               => /\ i = Len(made)
                  /\ CallFinished
                  /\ ret.kind = Raised
                  /\ error # None
                  /\ chat_history = turn_start[1]
                  /\ summary = turn_start[2]
    /\ \A i \in DOMAIN made :
           made[i].op = "append"
               => /\ i > 1
                  /\ made[i - 1] = [op |-> "generate", outcome |-> "ok"]
    /\ (pc \in {"classify", "search", "generate", "append"})
           => chat_history = turn_start[1] /\ summary = turn_start[2]

\* the answer generation of a turn fails on a session that already holds
\* turns and a summary
C14_Witness ==
    /\ CallFinished
    /\ made # <<>>
    /\ Last(made) = [op |-> "generate", outcome |-> "failed"]
    /\ ret.kind = Raised
    /\ Len(chat_history) = max_history_len
    /\ summary # <<>>

\* the places in appended of the turns that chat_history holds
Window == (n_appends - Len(chat_history) + 1)..n_appends

\* C15: when the summarization call of a compaction fails, the call ends
\* with the exception, the oldest turn is gone from chat_history, summary is
\* what it was, the turn just answered is the last of chat_history and
\* chat_history holds max_history_len turns; for the rest of the session the
\* evicted turn is neither in chat_history nor taken into the summary.
C15_FailedCompaction ==
    /\ (made # <<>> /\ Last(made) = [op |-> "manage", outcome |-> "failed"])
           => /\ CallFinished
              /\ ret.kind = Raised
              /\ error # None
              /\ Len(turn_start[1]) = max_history_len
              /\ chat_history =
                     Tail(Append(turn_start[1], appended[n_appends]))
              /\ summary = turn_start[2]
              /\ Len(chat_history) = max_history_len
              /\ compactions # <<>>
              /\ Last(compactions) =
                     [turn |-> n_appends - max_history_len,
                      outcome |-> "lost"]
    /\ \A i \in DOMAIN compactions :
           compactions[i].outcome = "lost"
               => /\ compactions[i].turn \notin Window
                  /\ \A n \in Window :
                         chat_history[n - (n_appends - Len(chat_history))]
                             = appended[n]
                  /\ \A j \in DOMAIN compactions :
                         compactions[j].outcome = "summarised"
                             => compactions[j].turn # compactions[i].turn

\* the first compaction failed and the session went on to a second one
C15_Witness ==
    /\ CallFinished
    /\ Len(compactions) = 2
    /\ compactions[1].outcome = "lost"
    /\ compactions[2].outcome = "summarised"
    /\ summary # <<>>
    /\ ret.kind = "returned"

\* C16: a failed external call is not recovered inside the call; it reaches
\* the caller as GenerationUnavailable when a generation call failed and as
\* IndexUnavailable when the index query failed, and so differs from the
\* returned outcomes of an empty retrieval and of a defaulted category.
C16_TypedFailure ==
    (CallFinished /\ made # <<>> /\ Last(made).outcome = "failed") =>
        /\ ret.kind = Raised
        /\ ret.answer # NoDocsAnswer
        /\ error = IF Last(made).op = "search"
                   THEN "IndexUnavailable"
                   ELSE "GenerationUnavailable"

StepOrder == <<"rephrase", "classify", "search", "generate", "append",
               "manage">>

IsPrefix(a, b) == Len(a) <= Len(b) /\ a = SubSeq(b, 1, Len(a))

\* the last call is over: a step failed, the retrieval was empty or the
\* memory update is done
TurnOver(log) ==
    log # <<>> /\ \/ Last(log).outcome \in {"failed", "empty"}
                  \/ Last(log).op = "manage"

\* texts joined by blank lines, in the order of found
JoinedInOrder(ctx, found) ==
    /\ Len(ctx) = IF found = <<>> THEN 0 ELSE 2 * Len(found) - 1
    /\ \A i \in DOMAIN found : ctx[2 * i - 1] = found[i].page_content
    /\ \A i \in 1..(Len(found) - 1) : ctx[2 * i] = "\n\n"

\* what each step was given, step by step
ArgumentsChained ==
    /\ IsPrefix(Ops(calls), StepOrder)
    /\ Len(calls) >= 2 => calls[2].arg = <<calls[1].out>>
    /\ Len(calls) >= 3 =>
           calls[3].arg = <<calls[1].out, calls[2].out, 5>>
    /\ Len(calls) >= 4 =>
           /\ JoinedInOrder(calls[4].arg[1], calls[3].out)
           /\ calls[3].out # <<>>
    /\ Len(calls) >= 5 =>
           calls[5].arg = <<<<calls[1].arg[1], calls[4].out>>>>
    /\ Len(calls) >= 5 =>
           appended[n_appends] = <<calls[1].arg[1], calls[4].out>>

\* every step taken is the next of the order after a step that ended well,
\* or the rephrase of a new turn when the turn before is over
NextStepInOrder ==
    made' # made =>
        \/ /\ Len(made') = Len(made) + 1
           /\ SubSeq(made', 1, Len(made)) = made
           /\ made # <<>>
           /\ Last(made).outcome = "ok"
           /\ IsPrefix(Ops(made'), StepOrder)
           /\ pc # "idle"
        \/ /\ Len(made') = 1
           /\ made'[1].op = "rephrase"
           /\ pc = "idle"
           /\ made = <<>> \/ TurnOver(made)

\* C20: the steps of a turn are rephrase, classify, retrieve, generate and
\* memory update in this order, each at most once and after the one before
\* has ended; classify_query is given the rephrased query, hybrid_search that
\* query, the classifier's category and k = 5, the answer generation the chunk
\* texts joined in the order hybrid_search returned them, and the memory
\* update comes last; the next turn starts only when this one is over.
C20_StepOrder == []ArgumentsChained /\ [][NextStepInOrder]_vars

C20_Witness ==
    /\ CallFinished
    /\ Ops(made) = StepOrder
    /\ Ops(calls) = StepOrder
    /\ calls[1].arg # <<calls[1].out>>
    /\ Len(calls[3].out) = 2
    /\ n_compactions > 0

\* the chat_history list that session s holds
HistoryOf(s) == heap[bots[s].chat_history]

\* C17: the chat_history of a session holds the last turns of its own calls
\* and no other, and a step of a call on one session leaves the chat_history
\* and the summary of the other session as they were.
C17_OwnMemory ==
    \A s \in Sessions :
        LET n == Min(Len(own_turns[s]), max_history_len)
        IN  /\ HistoryOf(s) = LastN(own_turns[s], n)
            /\ \A i \in DOMAIN HistoryOf(s) :
                   HistoryOf(s)[i][1][1] = (IF s = 1 THEN "S1" ELSE "S2")

C17_OthersUntouched ==
    \A s \in Sessions :
        acting' # s =>
            /\ heap'[bots'[s].chat_history] = HistoryOf(s)
            /\ bots'[s].summary = bots[s].summary

C17_Isolation == []C17_OwnMemory /\ [][C17_OthersUntouched]_vars

\* session 1 has just stored a turn and compacted, with a summary, while
\* session 2 holds two turns and an answered turn not yet stored
C17_Witness ==
    /\ acting = 1
    /\ Len(own_turns[1]) > max_history_len
    /\ bots[1].summary # <<>>
    /\ pending[2] # NoTurn
    /\ Len(HistoryOf(2)) = 2
    /\ bots[2].summary = <<>>

\* C18: given the same queries and the same outcomes of the external calls,
\* the session in "top_k" mode and the session in "summary" mode have, after
\* every turn, the same standalone query, category and chunks, the same way
\* the call ended, and the same chat_history and summary; only the memory
\* shown in the system prompt may differ, and "top_k" never shows a summary.
C18_ModeOnlyShown ==
    /\ bots[1].memory_type = "top_k" /\ bots[2].memory_type = "summary"
    /\ last_call[1].kind = last_call[2].kind
    /\ last_call[1].standalone_query = last_call[2].standalone_query
    /\ last_call[1].category = last_call[2].category
    /\ last_call[1].results = last_call[2].results
    /\ last_call[1].final_answer = last_call[2].final_answer
    /\ HistoryOf(1) = HistoryOf(2)
    /\ bots[1].summary = bots[2].summary
    /\ own_turns[1] = own_turns[2]
    /\ last_call[1].shown.history = last_call[2].shown.history
    /\ last_call[1].shown.context = last_call[2].shown.context
    /\ last_call[1].shown.summary = NoText

\* after a compaction both sessions hold the same summary, and the turn just
\* answered was shown that summary in "summary" mode only
C18_Witness ==
    /\ Len(own_turns[1]) = MaxSessionTurns
    /\ Len(HistoryOf(1)) = max_history_len
    /\ last_call[2].kind = "answered"
    /\ bots[1].summary = <<"s1">>
    /\ last_call[2].shown.summary = <<"s1">>
    /\ last_call[1].shown.summary = NoText

\* C19: a search that reads the collection while a rebuild is under way
\* reads the complete collection of before the rebuild or the complete
\* collection the rebuild writes.
C19_NeverMidUpdate ==
    \A s \in Sessions :
        (observed[s].read /\ observed[s].during # "idle") =>
            \E g \in 0..MaxRebuilds : observed[s].chunks = CompleteIndex(g)

\* the call made a summarization call and it returned
CompactionDone ==
    /\ made # <<>>
    /\ Last(made) = [op |-> "manage", outcome |-> "ok"]
    /\ calls[Len(calls)].arg # <<>>

\* summary after a compaction that succeeded: the output of the summarizer,
\* trimmed, which was given the summary and the oldest turn of before
SummaryReplaced ==
    CompactionDone =>
        /\ summary = Strip(calls[Len(calls)].out)
        /\ calls[Len(calls)].arg = <<turn_start[2], turn_start[1][1]>>
        /\ Len(turn_start[1]) = max_history_len

\* what a step may change of the memory
MemoryFrame ==
    /\ summary' # summary =>
           /\ pc = "manage"
           /\ Len(chat_history) > max_history_len
           /\ made' # <<>>
           /\ Last(made') = [op |-> "manage", outcome |-> "ok"]
    /\ pc \in {"idle", "classify", "search", "generate"} =>
           chat_history' = chat_history
    /\ (pc = "append" /\ Len(chat_history) < max_history_len) =>
           /\ summary' = summary
           /\ pc' = "manage"
    /\ (pc = "manage" /\ Len(chat_history) <= max_history_len) =>
           UNCHANGED <<summary, chat_history>>

\* C21: summary changes only in the compaction step of manage_history; the
\* rephrase, classify, search and generate steps, the return on an empty
\* retrieval and an append within max_history_len leave it, and the first
\* three (and the generation) leave chat_history too; a compaction that
\* succeeds sets summary to the trimmed output of the summarizer, an empty
\* one included.
C21_SummaryFrame == []SummaryReplaced /\ [][MemoryFrame]_vars

\* the second compaction of the session replaced a summary by the empty
\* output of the summarizer
C21_Witness ==
    /\ CallFinished
    /\ CompactionDone
    /\ turn_start[2] = <<"s1">>
    /\ calls[Len(calls)].out = <<>>
    /\ summary = <<>>

\* the places of text t in the returned list
PlacesOf(t) == {n \in DOMAIN search_out : search_out[n].page_content = t}

\* C22: the list hybrid_search returns holds no two chunks of the same text,
\* whether the text is in both lists or in documents of different sources;
\* such a text has one score, larger than what any single occurrence gives,
\* and one place in the fused list.
C22_OnePlacePerText ==
    Searched =>
        /\ DistinctTexts(search_out)
        /\ \A i, j \in DOMAIN search_scores :
               search_scores[i][1] = search_scores[j][1] => i = j
        /\ \A t \in Texts(vector_docs) \cup Texts(LexicalList) :
               /\ \E i \in DOMAIN search_scores : search_scores[i][1] = t
               /\ Len(search_scores) <= search_k =>
                      Cardinality(PlacesOf(t)) = 1
               /\ Cardinality(Ranks(vector_docs, t))
                      + Cardinality(Ranks(LexicalList, t)) > 1
                  => /\ \A r \in Ranks(vector_docs, t)
                                     \cup Ranks(LexicalList, t) :
                            ScoreOf(t) > Reciprocal(60 + r + 1)
                     /\ Cardinality(PlacesOf(t)) <= 1

\* text A is in the vector list and, from a document of another source, in
\* the lexical list, and is returned once
C22_Witness ==
    /\ Searched
    /\ \E i \in DOMAIN vector_docs, j \in DOMAIN LexicalList :
           /\ vector_docs[i].page_content = "A"
           /\ LexicalList[j].page_content = "A"
           /\ vector_docs[i].source # LexicalList[j].source
    /\ Cardinality(PlacesOf("A")) = 1
    /\ Len(search_out) > 1

\* the last document of text t in list
LastOf(list, t) ==
    list[CHOOSE i \in DOMAIN list :
             /\ list[i].page_content = t
             /\ \A j \in DOMAIN list : list[j].page_content = t => j <= i]

\* C26: when every chunk of the vector list has the requested category, so
\* has every chunk hybrid_search returns; for a text that the filtered
\* lexical list holds, the returned chunk is the one of the lexical list.
C26_CategoryOfResults ==
    (Searched /\ \A i \in DOMAIN vector_docs :
                     vector_docs[i].category = search_category) =>
        \A n \in DOMAIN search_out :
            /\ search_out[n].category = search_category
            /\ search_out[n].page_content \in Texts(LexicalList) =>
                   search_out[n] = LastOf(LexicalList, search_out[n].page_content)

\* text A comes from f1.pdf in the vector list and from f2.pdf in the lexical
\* list, whose raw result also held a chunk of another category
C26_Witness ==
    /\ Searched
    /\ \A i \in DOMAIN vector_docs : vector_docs[i].category = search_category
    /\ Doc("A", HR, "f1.pdf") \in Range(vector_docs)
    /\ Doc("A", HR, "f2.pdf") \in Range(LexicalList)
    /\ Doc("A", HR, "f2.pdf") \in Range(search_out)
    /\ \E i \in DOMAIN bm25_docs_raw :
           bm25_docs_raw[i].category # search_category

RECURSIVE SumTerms(_)
SumTerms(ranks) ==
    IF ranks = {} THEN 0
    ELSE LET r == CHOOSE r \in ranks : TRUE
         IN  Reciprocal(60 + r + 1) + SumTerms(ranks \ {r})

\* C27: the score of a text is one term 1/(60 + rank + 1) for each of its
\* occurrences in the vector list and in the filtered lexical list; a text
\* that one list repeats and the other does not hold scores higher than a
\* text which that list holds once, above all those occurrences, and the
\* other list does not hold.
C27_TermPerOccurrence ==
    Searched =>
        /\ \A i \in DOMAIN search_scores :
               search_scores[i][2] =
                   SumTerms(Ranks(vector_docs, search_scores[i][1]))
                   + SumTerms(Ranks(LexicalList, search_scores[i][1]))
        /\ \A t, u \in Texts(vector_docs) :
               (/\ Cardinality(Ranks(vector_docs, t)) > 1
                /\ Ranks(vector_docs, u) # {}
                /\ Cardinality(Ranks(vector_docs, u)) = 1
                /\ \A r \in Ranks(vector_docs, t), q \in Ranks(vector_docs, u) :
                       q < r
                /\ t \notin Texts(LexicalList)
                /\ u \notin Texts(LexicalList))
               => ScoreOf(t) > ScoreOf(u)

\* the vector list is B, A, A and nothing comes from the lexical list: A
\* scores 1/62 + 1/63 and is returned before B with 1/61
C27_Witness ==
    /\ Searched
    /\ Len(vector_docs) = 3
    /\ vector_docs[1].page_content = "B"
    /\ vector_docs[2].page_content = "A"
    /\ vector_docs[3].page_content = "A"
    /\ LexicalList = <<>>
    /\ ScoreOf("A") = Reciprocal(62) + Reciprocal(63)
    /\ ScoreOf("A") > ScoreOf("B")
    /\ search_out[1].page_content = "A"
    /\ search_out[2].page_content = "B"

EmptyRetrieval ==
    \E i \in DOMAIN made : made[i] = [op |-> "search", outcome |-> "empty"]

\* the memory and its counts stay as they are
MemoryKept ==
    UNCHANGED <<chat_history, summary, n_appends, n_compactions, appended,
                compactions>>

\* C24: a turn whose retrieval is empty ends with chat_history and summary as
\* they were when it began; it appends no turn, neither with the typed nor
\* with the standalone query, and compacts nothing.
C24_EmptyTurnLeavesMemory ==
    /\ [](EmptyRetrieval =>
              /\ CallFinished
              /\ chat_history = turn_start[1]
              /\ summary = turn_start[2]
              /\ ~HasOp(made, "append")
              /\ ~HasOp(made, "manage"))
    /\ [][(pc \in {"idle", "classify", "search"}) => MemoryKept]_vars

\* an empty retrieval on a session with a full window and a summary, where
\* an appended turn would have started a compaction
C24_Witness ==
    /\ CallFinished
    /\ EmptyRetrieval
    /\ Len(chat_history) = max_history_len
    /\ summary = <<"s1">>
    /\ calls[1].arg[1] # calls[1].out
    /\ n_compactions = 1

\* rephrase_query has returned and the call has gone no further
Rephrased == pc = "classify"

\* the running call is the first of the session to reach the memory: no
\* earlier call has appended a turn
NothingStoredBefore == n_appends = 0

\* C25: rephrase_query passes the query through without a generation call
\* exactly when no earlier call of the session has appended a turn, which
\* includes the calls that follow only failed or empty-retrieval calls; a
\* rephrasing that raised was a generation call, so a turn was stored before
\* it; and once a turn is appended chat_history is never empty again.
C25_PassThroughUntilFirstTurn ==
    /\ Rephrased =>
           /\ (rephrase_calls = 0) <=> NothingStoredBefore
           /\ rephrase_calls = 0 =>
                  standalone_query = user_query /\ llm_out = NoText
           /\ rephrase_calls # 0 =>
                  rephrase_calls = 1 /\ calls_before = "stored"
    /\ (CallFinished /\ made = <<[op |-> "rephrase", outcome |-> "failed"]>>)
           => n_appends > 0
    /\ n_appends > 0 => chat_history # <<>>

C25_Witness ==
    /\ Rephrased
    /\ calls_before = "unstored"
    /\ rephrase_calls = 0
    /\ standalone_query = <<" ", "q2">>
    /\ llm_out = NoText

====
